---- MODULE Spec2Model ----
(***************************************************************************)
(* A model of the VibeClaw skill installer (src/src/skill-installer.ts,    *)
(* the sanitizing revision at lines 180-406) and of the security gate and  *)
(* install tool (src/unnamed/part_000, lines 128-460).                     *)
(*                                                                         *)
(* Strings are sequences of one-character strings.  An optional value      *)
(* (T | null | undefined) is a sequence of length 0 or 1.  A filesystem    *)
(* path is a sequence of segments, each segment a string.  The filesystem  *)
(* and the network are assumed to answer: an fs call fails only for the    *)
(* reason the code tests for (the file is absent).                         *)
(***************************************************************************)
EXTENDS Integers, Sequences, FiniteSets, TLC

VARIABLES fs, now, call, result, requests, fsOps, procs

vars == <<fs, now, call, result, requests, fsOps, procs>>

(***************************************************************************)
(* Bounds                                                                  *)
(***************************************************************************)
MaxClock == 2
MaxNameLen == 4
MaxScore == 26
MaxTokens == 4

(***************************************************************************)
(* Options and strings                                                     *)
(***************************************************************************)
None == <<>>
Some(x) == <<x>>
IsSome(o) == Len(o) = 1
Get(o) == o[1]

\* String.prototype.startsWith
StartsWith(s, pre) ==
  /\ Len(s) >= Len(pre)
  /\ SubSeq(s, 1, Len(pre)) = pre

\* String.prototype.indexOf(sub, from): 0-based index of the first occurrence
\* of sub at a position >= from, or -1
IndexOf(s, sub, from) ==
  LET hits == {i \in from..(Len(s) - Len(sub)) : SubSeq(s, i + 1, i + Len(sub)) = sub}
  IN IF hits = {} THEN -1 ELSE CHOOSE i \in hits : \A j \in hits : i <= j

\* String.prototype.includes
Includes(s, sub) == IndexOf(s, sub, 0) >= 0

RECURSIVE Words(_, _)
\* all strings over alphabet of length at most n
Words(alphabet, n) ==
  IF n = 0 THEN {<<>>}
  ELSE LET shorter == Words(alphabet, n - 1)
       IN shorter \cup {Append(w, c) : w \in shorter, c \in alphabet}

(***************************************************************************)
(* Paths (node:path, POSIX)                                                *)
(***************************************************************************)
CONFIG_DIR == << <<"h">>, <<".", "o">> >>

SKILLS_DIR == Append(CONFIG_DIR, <<"s">>)

SKILL_MD == <<"S">>

VIBECLAW_JSON == <<".", "v">>

RECURSIVE Split(_)
\* the segments of a relative path string, cut at "/"
Split(str) ==
  LET cut == IndexOf(str, <<"/">>, 0)
  IN IF cut < 0 THEN <<str>>
     ELSE <<SubSeq(str, 1, cut)>> \o Split(SubSeq(str, cut + 2, Len(str)))

RECURSIVE Normalize(_, _)
\* apply the segments of a relative path to an absolute one: "" and "." stay,
\* ".." goes to the parent (the parent of the filesystem root is the root)
Normalize(base, segs) ==
  IF segs = <<>> THEN base
  ELSE LET seg == Head(segs)
           next == IF seg = <<>> \/ seg = <<".">> THEN base
                   ELSE IF seg = <<".", ".">>
                        THEN (IF base = <<>> THEN base ELSE SubSeq(base, 1, Len(base) - 1))
                        ELSE Append(base, seg)
       IN Normalize(next, Tail(segs))

\* path.resolve(base, rel) and path.join(base, rel) for an absolute base and a
\* relative rel
PathResolve(base, rel) == Normalize(base, Split(rel))

\* resolved.startsWith(dir + path.sep), on normalized absolute paths
IsStrictlyInside(resolved, dir) ==
  /\ Len(resolved) > Len(dir)
  /\ SubSeq(resolved, 1, Len(dir)) = dir

(***************************************************************************)
(* Name Sanitizer                                                          *)
(***************************************************************************)
\* the characters the regex /[^a-zA-Z0-9\-_.]/g keeps, among those of the model
AllowedChars == {"a", "b", "-", "_", "."}

sanitizeSkillName_NoDotDot(name) ==
  LET sanitized == SelectSeq(name, LAMBDA c : c \in AllowedChars)
  IN IF sanitized = <<>> \/ StartsWith(sanitized, <<".">>)
     THEN None
     ELSE Some(sanitized)

sanitizeSkillName_NoLeadingDot(name) ==
  LET sanitized == SelectSeq(name, LAMBDA c : c \in AllowedChars)
  IN IF sanitized = <<>> \/ Includes(sanitized, <<".", ".">>)
     THEN None
     ELSE IF ~IsStrictlyInside(PathResolve(SKILLS_DIR, sanitized), SKILLS_DIR)
          THEN None
          ELSE Some(sanitized)

sanitizeSkillName(name) ==
  LET sanitized == SelectSeq(name, LAMBDA c : c \in AllowedChars)
  IN IF sanitized = <<>> \/ Includes(sanitized, <<".", ".">>) \/ StartsWith(sanitized, <<".">>)
     THEN None
     ELSE IF ~IsStrictlyInside(PathResolve(SKILLS_DIR, sanitized), SKILLS_DIR)
          THEN None
          ELSE Some(sanitized)

(***************************************************************************)
(* Source Prober                                                           *)
(***************************************************************************)
Url(owner, repo, branch, layout, name) ==
  [owner |-> owner, repo |-> repo, branch |-> branch, layout |-> layout, name |-> name]

\* the layout "root" is <base>/<branch>/SKILL.md, which has no name in it
getSkillMdUrls(owner, repo, skillName) ==
  << Url(owner, repo, "main", "skills", skillName),
     Url(owner, repo, "master", "skills", skillName),
     Url(owner, repo, "main", "root", <<>>),
     Url(owner, repo, "master", "root", <<>>),
     Url(owner, repo, "main", "src/skills", skillName),
     Url(owner, repo, "master", "src/skills", skillName) >>

FRONTMATTER == <<"-", "-", "-">>

NAME_FIELD == <<"n", "a", "m", "e", ":">>

\* the content test of downloadSkillMd
IsSkillMd(content) ==
  /\ StartsWith(content, FRONTMATTER)
  /\ IndexOf(content, FRONTMATTER, 3) > 3
  /\ Includes(content, NAME_FIELD)

\* what one fetch can do: throw (transport failure, also of response.text()),
\* answer with a non-2xx status, or answer 2xx with a body
Transport == [threw |-> TRUE, ok |-> FALSE, text |-> <<>>]
HttpFail == [threw |-> FALSE, ok |-> FALSE, text |-> <<>>]
Ok(text) == [threw |-> FALSE, ok |-> TRUE, text |-> text]

RECURSIVE FetchLoop_NoStop(_, _, _, _)
FetchLoop_NoStop(urls, net, i, reqs) ==
  IF i > Len(urls) THEN [requests |-> reqs, found |-> None]
  ELSE LET response == net[i]
           rest == FetchLoop_NoStop(urls, net, i + 1, Append(reqs, urls[i]))
       IN IF ~response.threw /\ response.ok /\ IsSkillMd(response.text)
          THEN [requests |-> rest.requests,
                found |-> Some([content |-> response.text, url |-> urls[i]])]
          ELSE rest

RECURSIVE FetchLoop(_, _, _, _)
\* the for loop of downloadSkillMd from candidate i on; net[i] is what the
\* fetch of candidate i does, reqs the requests issued so far
FetchLoop(urls, net, i, reqs) ==
  IF i > Len(urls) THEN [requests |-> reqs, found |-> None]
  ELSE LET response == net[i]
           issued == Append(reqs, urls[i])
       IN IF ~response.threw /\ response.ok /\ IsSkillMd(response.text)
          THEN [requests |-> issued,
                found |-> Some([content |-> response.text, url |-> urls[i]])]
          ELSE FetchLoop(urls, net, i + 1, issued)

downloadSkillMd_NoStop(owner, repo, skillName, net) ==
  FetchLoop_NoStop(getSkillMdUrls(owner, repo, skillName), net, 1, <<>>)

downloadSkillMd(owner, repo, skillName, net) ==
  FetchLoop(getSkillMdUrls(owner, repo, skillName), net, 1, <<>>)

(***************************************************************************)
(* Filesystem (node:fs/promises)                                           *)
(***************************************************************************)
\* fs maps each existing directory to its two files of interest
EmptyDir == [skillmd |-> None, meta |-> None]

FsOp(op, path) == [op |-> op, path |-> path]

\* fs.access(<dir>/SKILL.md) succeeds
HasSkillMd(fsys, dir) == dir \in DOMAIN fsys /\ IsSome(fsys[dir].skillmd)

\* fs.access(<dir>/.vibeclaw.json) succeeds
HasMeta(fsys, dir) == dir \in DOMAIN fsys /\ IsSome(fsys[dir].meta)

\* fs.mkdir(dir, { recursive: true })
Mkdir(fsys, dir) ==
  IF dir \in DOMAIN fsys THEN fsys
  ELSE [d \in DOMAIN fsys \cup {dir} |-> IF d = dir THEN EmptyDir ELSE fsys[d]]

\* a write that would keep a content file already there
WriteSkillMd_KeepExisting(fsys, dir, content) ==
  IF IsSome(fsys[dir].skillmd) THEN fsys ELSE [fsys EXCEPT ![dir].skillmd = Some(content)]

\* fs.writeFile(<dir>/SKILL.md, content) in an existing directory
WriteSkillMd(fsys, dir, content) ==
  [fsys EXCEPT ![dir].skillmd = Some(content)]

\* fs.writeFile(<dir>/.vibeclaw.json, JSON.stringify(meta)) in an existing directory
WriteMeta(fsys, dir, meta) ==
  [fsys EXCEPT ![dir].meta = Some(meta)]

RmRecursive_Siblings(fsys, dir) ==
  [d \in {e \in DOMAIN fsys : Len(e) < Len(dir)} |-> fsys[d]]

\* fs.rm(dir, { recursive: true })
RmRecursive(fsys, dir) ==
  [d \in {e \in DOMAIN fsys : ~(e = dir \/ IsStrictlyInside(e, dir))} |-> fsys[d]]

(***************************************************************************)
(* Installer                                                               *)
(***************************************************************************)
\* InstallResult; an absent alreadyInstalled reads as false
InstallResult(success, skillName, installPath, sourceUrl, error, alreadyInstalled) ==
  [success |-> success, skillName |-> skillName, installPath |-> installPath,
   sourceUrl |-> sourceUrl, error |-> error, alreadyInstalled |-> alreadyInstalled]

\* a record that would name the first candidate whatever answered
InstallMeta_FirstCandidate(t, owner, repo, url, skillName) ==
  [installedBy |-> "vibeclaw", installedAt |-> t,
   source |-> [owner |-> owner, repo |-> repo],
   sourceUrl |-> getSkillMdUrls(owner, repo, skillName)[1],
   skillName |-> skillName]

\* meta: source is github:<owner>/<repo>, sourceUrl the URL that answered
InstallMeta(t, owner, repo, url, skillName) ==
  [installedBy |-> "vibeclaw", installedAt |-> t,
   source |-> [owner |-> owner, repo |-> repo], sourceUrl |-> url,
   skillName |-> skillName]

\* what a call leaves behind: the filesystem, the value returned, the requests
\* issued and the filesystem calls made, in order
Outcome(fsys, res, reqs, ops) ==
  [fs |-> fsys, result |-> res, requests |-> reqs, fsOps |-> ops]

\* the "Check if already installed" test: fs.access(skillFile) succeeds and
\* force is not set
AlreadyInstalled_ForceInverted(fsys, skillDir, force) ==
  HasSkillMd(fsys, skillDir) /\ force

AlreadyInstalled(fsys, skillDir, force) ==
  HasSkillMd(fsys, skillDir) /\ ~force

\* the filesystem when the prober found nothing: the return precedes mkdir
FsAfterFailedProbe_DirMade(fsys, skillDir) ==
  Mkdir(fsys, skillDir)

FsAfterFailedProbe(fsys, skillDir) ==
  fsys

\* mkdir, then SKILL.md, then .vibeclaw.json
WriteSkill_RecordKept(fsys, skillDir, content, meta) ==
  LET written == WriteSkillMd(Mkdir(fsys, skillDir), skillDir, content)
  IN IF HasMeta(written, skillDir) THEN written ELSE WriteMeta(written, skillDir, meta)

WriteSkill(fsys, skillDir, content, meta) ==
  LET made == Mkdir(fsys, skillDir)
      written == WriteSkillMd(made, skillDir, content)
  IN WriteMeta(written, skillDir, meta)

\* installSkillFromGitHub(owner, repo, skillName, { force }) on filesystem fsys,
\* with the clock at t when the record is built and net[i] the answer to the
\* fetch of candidate i
installSkillFromGitHub(fsys, t, owner, repo, skillName, force, net) ==
  LET safeName == sanitizeSkillName(skillName)
  IN IF ~IsSome(safeName)
     THEN Outcome(fsys,
                  InstallResult(FALSE, skillName, None, None, Some("invalid-name"), FALSE),
                  <<>>, <<>>)
     ELSE
       LET skillDir == PathResolve(SKILLS_DIR, Get(safeName))
           skillFile == Append(skillDir, SKILL_MD)
           access == <<FsOp("access", skillFile)>>
       IN IF AlreadyInstalled(fsys, skillDir, force)
          THEN Outcome(fsys,
                       InstallResult(TRUE, skillName, Some(skillDir), None, None, TRUE),
                       <<>>, access)
          ELSE
            LET probe == downloadSkillMd(owner, repo, skillName, net)
            IN IF ~IsSome(probe.found)
               THEN Outcome(FsAfterFailedProbe(fsys, skillDir),
                            InstallResult(FALSE, skillName, None, None, Some("not-found"), FALSE),
                            probe.requests, access)
               ELSE
                 LET got == Get(probe.found)
                     meta == InstallMeta(t, owner, repo, got.url, skillName)
                 IN Outcome(WriteSkill(fsys, skillDir, got.content, meta),
                            InstallResult(TRUE, skillName, Some(skillDir), Some(got.url),
                                          None, FALSE),
                            probe.requests,
                            access \o <<FsOp("mkdir", skillDir),
                                        FsOp("writeFile", skillFile),
                                        FsOp("writeFile", Append(skillDir, VIBECLAW_JSON))>>)

(***************************************************************************)
(* Registry                                                                *)
(***************************************************************************)
\* getInstalledSkillMeta(skillName): the record is stored as JSON text of a
\* flat object of strings, which JSON.parse reads back as written
getInstalledSkillMeta(fsys, skillName) ==
  LET safeName == sanitizeSkillName(skillName)
  IN IF ~IsSome(safeName) THEN Outcome(fsys, None, <<>>, <<>>)
     ELSE LET skillDir == PathResolve(SKILLS_DIR, Get(safeName))
              metaPath == Append(skillDir, VIBECLAW_JSON)
          IN Outcome(fsys,
                     IF HasMeta(fsys, skillDir) THEN fsys[skillDir].meta ELSE None,
                     <<>>, <<FsOp("readFile", metaPath)>>)

uninstallSkill_NoRecordCheck(fsys, skillName) ==
  LET safeName == sanitizeSkillName(skillName)
  IN IF ~IsSome(safeName) THEN Outcome(fsys, FALSE, <<>>, <<>>)
     ELSE LET skillDir == PathResolve(SKILLS_DIR, Get(safeName))
          IN IF skillDir \in DOMAIN fsys
             THEN Outcome(RmRecursive(fsys, skillDir), TRUE, <<>>, <<FsOp("rm", skillDir)>>)
             ELSE Outcome(fsys, FALSE, <<>>, <<FsOp("rm", skillDir)>>)

\* uninstallSkill(skillName)
uninstallSkill(fsys, skillName) ==
  LET safeName == sanitizeSkillName(skillName)
  IN IF ~IsSome(safeName) THEN Outcome(fsys, FALSE, <<>>, <<>>)
     ELSE LET skillDir == PathResolve(SKILLS_DIR, Get(safeName))
              metaPath == Append(skillDir, VIBECLAW_JSON)
          IN IF HasMeta(fsys, skillDir)
             THEN Outcome(RmRecursive(fsys, skillDir), TRUE, <<>>,
                          <<FsOp("access", metaPath), FsOp("rm", skillDir)>>)
             ELSE Outcome(fsys, FALSE, <<>>, <<FsOp("access", metaPath)>>)

\* the names of the directories directly under the root
RootEntries(fsys) ==
  {d[Len(d)] : d \in {e \in DOMAIN fsys : Len(e) = Len(SKILLS_DIR) + 1
                                          /\ IsStrictlyInside(e, SKILLS_DIR)}}

listInstalledSkills_Content(fsys) ==
  Outcome(fsys,
          {name \in RootEntries(fsys) : HasSkillMd(fsys, Append(SKILLS_DIR, name))},
          <<>>, <<FsOp("readdir", SKILLS_DIR)>>)

\* listInstalledSkills(): the entries whose .vibeclaw.json can be accessed, as
\* a set (readdir fixes no order); a root that cannot be read has no entries
listInstalledSkills(fsys) ==
  Outcome(fsys,
          {name \in RootEntries(fsys) : HasMeta(fsys, Append(SKILLS_DIR, name))},
          <<>>, <<FsOp("readdir", SKILLS_DIR)>>)

(***************************************************************************)
(* Inputs                                                                  *)
(***************************************************************************)
\* two descriptors that pass the content test and a page that does not
SkillA == FRONTMATTER \o NAME_FIELD \o FRONTMATTER

SkillB == FRONTMATTER \o NAME_FIELD \o <<"b">> \o FRONTMATTER

HtmlPage == <<"<", "h", ">">>

Descriptors == {SkillA, SkillB}

Owners == {"o"}

Repos == {"r"}

\* raw identifiers of the lifecycle: two that name skills, one that the
\* sanitizer maps onto the first, one it rejects
RawNames == {<<"a">>, <<"b">>, <<"a", "/">>, <<".", ".", "/", "a">>}

\* directory names someone may create under the root by other means
PlacedNames == {<<"a">>, <<"b">>}

\* answers of the six candidates used in the lifecycle: none valid, the first
\* valid, only the fourth valid
NetNone == <<Transport, HttpFail, Ok(HtmlPage), HttpFail, Transport, Ok(HtmlPage)>>

NetFirst(c) == <<Ok(c), HttpFail, HttpFail, HttpFail, HttpFail, HttpFail>>

NetFourth(c) == <<HttpFail, Transport, Ok(HtmlPage), Ok(c), HttpFail, Transport>>

Nets == {NetNone, NetFirst(SkillA), NetFourth(SkillB)}

Times == {t \in {now, now + 1} : t <= MaxClock}

(***************************************************************************)
(* Lifecycle: one call after the other on the installation root            *)
(***************************************************************************)
\* the directory a raw identifier denotes, if the sanitizer accepts it
TargetDir(raw) ==
  IF IsSome(sanitizeSkillName(raw))
  THEN Some(PathResolve(SKILLS_DIR, Get(sanitizeSkillName(raw))))
  ELSE None

\* the entry of that directory, if it exists
Entry(fsys, dirOpt) ==
  IF IsSome(dirOpt) /\ Get(dirOpt) \in DOMAIN fsys THEN Some(fsys[Get(dirOpt)]) ELSE None

\* the call just made: its arguments, what the network answered, the entry of
\* its target directory before it, whether it follows a fresh install of the
\* same identifier, and the catalog resource a tool call is about
Call(op, owner, repo, raw, force, net, pre, follows) ==
  [op |-> op, owner |-> owner, repo |-> repo, raw |-> raw, force |-> force,
   net |-> net, pre |-> pre, follows |-> follows, skill |-> None]

NoCall(op, raw, pre) == Call(op, "", "", raw, FALSE, <<>>, pre, FALSE)

\* the previous call was an install of raw that downloaded and wrote the skill
FreshlyInstalled(raw) ==
  /\ call.op = "install"
  /\ call.raw = raw
  /\ result.success
  /\ ~result.alreadyInstalled

\* the calls of installSkillFromGitHub in flight: none while calls run one
\* after the other
NoProcs == <<>>

Init ==
  /\ fs = <<>>
  /\ now = 0
  /\ call = NoCall("init", <<>>, None)
  /\ result = None
  /\ requests = <<>>
  /\ fsOps = <<>>
  /\ procs = NoProcs

Apply(out) ==
  /\ fs' = out.fs
  /\ result' = out.result
  /\ requests' = out.requests
  /\ fsOps' = out.fsOps
  /\ UNCHANGED procs

InstallOf(raws) ==
  \E owner \in Owners, repo \in Repos, raw \in raws, force \in BOOLEAN,
     net \in Nets, t \in Times :
    /\ Apply(installSkillFromGitHub(fs, t, owner, repo, raw, force, net))
    /\ now' = t
    /\ call' = Call("install", owner, repo, raw, force, net,
                    Entry(fs, TargetDir(raw)), FreshlyInstalled(raw))

UninstallOf(raws) ==
  \E raw \in raws :
    /\ Apply(uninstallSkill(fs, raw))
    /\ call' = NoCall("uninstall", raw, Entry(fs, TargetDir(raw)))
    /\ UNCHANGED now

GetMetaOf(raws) ==
  \E raw \in raws :
    /\ Apply(getInstalledSkillMeta(fs, raw))
    /\ call' = NoCall("getMeta", raw, Entry(fs, TargetDir(raw)))
    /\ UNCHANGED now

Install == InstallOf(RawNames)

Uninstall == UninstallOf(RawNames)

\* someone copies a skill into a new directory under the root, without a record
PlaceDirOf(names) ==
  \E name \in names, content \in Descriptors :
    LET dir == Append(SKILLS_DIR, name)
    IN /\ dir \notin DOMAIN fs
       /\ fs' = WriteSkillMd(Mkdir(fs, dir), dir, content)
       /\ call' = NoCall("place", name, None)
       /\ result' = None
       /\ requests' = <<>>
       /\ fsOps' = <<>>
       /\ UNCHANGED <<now, procs>>

PlaceDir == PlaceDirOf(PlacedNames)

Next == Install \/ Uninstall \/ PlaceDir

Spec == Init /\ [][Next]_vars

(***************************************************************************)
(* Identifiers: one call with any raw identifier                           *)
(***************************************************************************)
\* a letter, the dot, the separator and a character the sanitizer strips
NameChars == {"a", ".", "/", "%"}

AllRaw == Words(NameChars, MaxNameLen)

\* the root with the skill "a" installed from the first candidate at time 0
InstalledA ==
  installSkillFromGitHub(<<>>, 0, "o", "r", <<"a">>, FALSE, NetFirst(SkillA)).fs

InitNames ==
  /\ fs \in {<<>>, InstalledA}
  /\ now = 0
  /\ call = NoCall("init", <<>>, None)
  /\ result = None
  /\ requests = <<>>
  /\ fsOps = <<>>
  /\ procs = NoProcs

InstallAny == call.op = "init" /\ InstallOf(AllRaw)

UninstallAny == call.op = "init" /\ UninstallOf(AllRaw)

GetMetaAny == call.op = "init" /\ GetMetaOf(AllRaw)

NextNames == InstallAny \/ UninstallAny \/ GetMetaAny

SpecNames == InitNames /\ [][NextNames]_vars

\* C1: an install of a raw identifier that contains "../" or starts with "."
\* is refused by the sanitizer and fails with an error, without one filesystem
\* call or request
C1_TraversalRefused ==
  (/\ call.op = "install"
   /\ (Includes(call.raw, <<".", ".", "/">>) \/ StartsWith(call.raw, <<".">>)))
  => (/\ sanitizeSkillName(call.raw) = None
      /\ ~result.success
      /\ IsSome(result.error)
      /\ fsOps = <<>>
      /\ requests = <<>>)

\* refused: "../" inside an identifier that starts with a letter
C1_Witness ==
  /\ call.op = "install"
  /\ Includes(call.raw, <<".", ".", "/">>)
  /\ ~StartsWith(call.raw, <<".">>)
  /\ ~result.success
  /\ fsOps = <<>>

\* a name the Data Model calls sanitized
IsSafeName(s) ==
  /\ s # <<>>
  /\ \A i \in DOMAIN s : s[i] \in {"a", "b", "-", "_", "."}
  /\ \A i \in 1..(Len(s) - 1) : ~(s[i] = "." /\ s[i + 1] = ".")
  /\ s[1] # "."

\* path is <root>/<s> or <root>/<s>/<file>
IsUnder(path, s) ==
  /\ Len(path) \in {Len(SKILLS_DIR) + 1, Len(SKILLS_DIR) + 2}
  /\ SubSeq(path, 1, Len(SKILLS_DIR)) = SKILLS_DIR
  /\ path[Len(SKILLS_DIR) + 1] = s

ListedNames == PlacedNames \cup {<<"c">>}

PlaceAny == PlaceDirOf(ListedNames)

List ==
  /\ Apply(listInstalledSkills(fs))
  /\ call' = NoCall("list", <<>>, None)
  /\ UNCHANGED now

NextList == Install \/ Uninstall \/ PlaceAny \/ List

SpecList == Init /\ [][NextList]_vars

(***************************************************************************)
(* Steps: calls of installSkillFromGitHub in flight, one await at a time   *)
(***************************************************************************)
\* the callers whose calls may overlap
Procs == {1, 2}

\* the identifier they install
StepNames == {<<"a">>}

\* a call: the await it stands before, the await it stood before when the host
\* went down, its arguments, what downloadSkillMd returned and what the call
\* returned
Proc(pc, at, raw, force, net, found, res) ==
  [pc |-> pc, at |-> at, raw |-> raw, force |-> force, net |-> net,
   found |-> found, result |-> res]

Idle == Proc("idle", "", <<>>, FALSE, <<>>, None, None)

InFlight == {"access", "download", "mkdir", "writeMd", "writeMeta"}

\* the calls, and which of them wrote each file of the target last
Steps(run, mdBy, metaBy) == [run |-> run, mdBy |-> mdBy, metaBy |-> metaBy]

\* an order of the awaits after the download that writes the record before
\* the content
Continuation_RecordFirst(pc) ==
  CASE pc = "mkdir" -> "writeMeta"
    [] pc = "writeMeta" -> "writeMd"
    [] pc = "writeMd" -> "return"

\* the order of the awaits after the download: mkdir, SKILL.md, .vibeclaw.json
Continuation(pc) ==
  CASE pc = "mkdir" -> "writeMd"
    [] pc = "writeMd" -> "writeMeta"
    [] pc = "writeMeta" -> "return"

\* the record a call builds from what it downloaded
MetaOf(pr, t) == InstallMeta(t, "o", "r", Get(pr.found).url, pr.raw)

\* the call moves past one of its last three awaits, and returns after the last
Advance(pr, dir) ==
  IF Continuation(pr.pc) = "return"
  THEN [pr EXCEPT !.pc = "done",
                  !.result = Some(InstallResult(TRUE, pr.raw, Some(dir),
                                                Some(Get(pr.found).url), None, FALSE))]
  ELSE [pr EXCEPT !.pc = Continuation(pr.pc)]

Returned(pr, res) == [pr EXCEPT !.pc = "done", !.result = Some(res)]

InitSteps ==
  /\ fs = <<>>
  /\ now = 0
  /\ call = NoCall("init", <<>>, None)
  /\ result = None
  /\ requests = <<>>
  /\ fsOps = <<>>
  /\ procs = Steps([p \in Procs |-> Idle], None, None)

\* a caller with no call in flight calls installSkillFromGitHub; the sanitizer
\* runs before the first await
StepCall(p) ==
  \E raw \in StepNames, force \in BOOLEAN, net \in Nets :
    /\ procs.run[p].pc \notin InFlight
    /\ procs' = [procs EXCEPT !.run[p] =
         IF IsSome(TargetDir(raw))
         THEN Proc("access", "", raw, force, net, None, None)
         ELSE Returned(Proc("access", "", raw, force, net, None, None),
                       InstallResult(FALSE, raw, None, None, Some("invalid-name"), FALSE))]
    /\ UNCHANGED <<fs, now, call, result, requests, fsOps>>

\* await fs.access(skillFile)
StepAccess(p) ==
  LET pr == procs.run[p]
      dir == Get(TargetDir(pr.raw))
  IN /\ pr.pc = "access"
     /\ procs' = [procs EXCEPT !.run[p] =
          IF AlreadyInstalled(fs, dir, pr.force)
          THEN Returned(pr, InstallResult(TRUE, pr.raw, Some(dir), None, None, TRUE))
          ELSE [pr EXCEPT !.pc = "download"]]
     /\ UNCHANGED <<fs, now, call, result, requests, fsOps>>

\* await downloadSkillMd(owner, repo, skillName): its fetches touch nothing
\* the other calls read, so they are taken in one step
StepDownload(p) ==
  LET pr == procs.run[p]
      probe == downloadSkillMd("o", "r", pr.raw, pr.net)
  IN /\ pr.pc = "download"
     /\ procs' = [procs EXCEPT !.run[p] =
          IF IsSome(probe.found)
          THEN [pr EXCEPT !.pc = "mkdir", !.found = probe.found]
          ELSE Returned(pr, InstallResult(FALSE, pr.raw, None, None,
                                          Some("not-found"), FALSE))]
     /\ UNCHANGED <<fs, now, call, result, requests, fsOps>>

\* await fs.mkdir(skillDir, { recursive: true })
StepMkdir(p) ==
  LET pr == procs.run[p]
      dir == Get(TargetDir(pr.raw))
  IN /\ pr.pc = "mkdir"
     /\ fs' = Mkdir(fs, dir)
     /\ procs' = [procs EXCEPT !.run[p] = Advance(pr, dir)]
     /\ UNCHANGED <<now, call, result, requests, fsOps>>

\* await fs.writeFile(skillFile, result.content); nothing removes the
\* directory while a call is in flight
StepWriteMd(p) ==
  LET pr == procs.run[p]
      dir == Get(TargetDir(pr.raw))
  IN /\ pr.pc = "writeMd"
     /\ fs' = WriteSkillMd(fs, dir, Get(pr.found).content)
     /\ procs' = [procs EXCEPT !.run[p] = Advance(pr, dir), !.mdBy = Some(p)]
     /\ UNCHANGED <<now, call, result, requests, fsOps>>

\* new Date() and await fs.writeFile(<skillDir>/.vibeclaw.json, ...)
StepWriteMeta(p) ==
  LET pr == procs.run[p]
      dir == Get(TargetDir(pr.raw))
  IN /\ pr.pc = "writeMeta"
     /\ fs' = WriteMeta(fs, dir, MetaOf(pr, now))
     /\ procs' = [procs EXCEPT !.run[p] = Advance(pr, dir), !.metaBy = Some(p)]
     /\ UNCHANGED <<now, call, result, requests, fsOps>>

\* the host goes down: every call in flight ends where it stands
Crash ==
  /\ \E p \in Procs : procs.run[p].pc \in InFlight
  /\ procs' = [procs EXCEPT !.run = [p \in Procs |->
       IF procs.run[p].pc \in InFlight
       THEN [procs.run[p] EXCEPT !.pc = "crashed", !.at = procs.run[p].pc]
       ELSE procs.run[p]]]
  /\ UNCHANGED <<fs, now, call, result, requests, fsOps>>

\* uninstallSkill, called while no install is in flight; the callers start over
StepUninstall ==
  \E raw \in StepNames :
    /\ \A p \in Procs : procs.run[p].pc \notin InFlight
    /\ Get(TargetDir(raw)) \in DOMAIN fs
    /\ fs' = uninstallSkill(fs, raw).fs
    /\ procs' = Steps([p \in Procs |-> Idle], None, None)
    /\ UNCHANGED <<now, call, result, requests, fsOps>>

StepOf(p) ==
  \/ StepCall(p)
  \/ StepAccess(p)
  \/ StepDownload(p)
  \/ StepMkdir(p)
  \/ StepWriteMd(p)
  \/ StepWriteMeta(p)

NextSteps == (\E p \in Procs : StepOf(p)) \/ Crash \/ StepUninstall

SpecSteps == InitSteps /\ [][NextSteps]_vars

(***************************************************************************)
(* Prober: one download under any answers of the six candidates            *)
(***************************************************************************)
ProbeAnswers == {Transport, HttpFail, Ok(HtmlPage), Ok(SkillA), Ok(SkillB)}

AllNets == [1..6 -> ProbeAnswers]

Download ==
  \E owner \in Owners, repo \in Repos, net \in AllNets :
    LET probe == downloadSkillMd(owner, repo, <<"a">>, net)
    IN /\ call.op = "init"
       /\ result' = probe.found
       /\ requests' = probe.requests
       /\ call' = Call("download", owner, repo, <<"a">>, FALSE, net, None, FALSE)
       /\ UNCHANGED <<fs, now, fsOps, procs>>

NextProbe == Download

SpecProbe == Init /\ [][NextProbe]_vars

(***************************************************************************)
(* Content: one download whose first candidate answers any text            *)
(***************************************************************************)
\* pieces a response body is put together from
Tokens == {FRONTMATTER, NAME_FIELD, <<"x">>, <<"-">>}

RECURSIVE Texts(_)
\* the bodies of at most n pieces
Texts(n) ==
  IF n = 0 THEN {<<>>}
  ELSE LET shorter == Texts(n - 1)
       IN shorter \cup {t \o k : t \in shorter, k \in Tokens}

\* the first candidate answers 200 with the body, the second with a descriptor
ContentNets ==
  {<<Ok(c), Ok(SkillA), HttpFail, HttpFail, HttpFail, HttpFail>> : c \in Texts(MaxTokens)}

InitContent ==
  /\ fs = <<>>
  /\ now = 0
  /\ call \in {Call("init", "o", "r", <<"a">>, FALSE, net, None, FALSE) : net \in ContentNets}
  /\ result = None
  /\ requests = <<>>
  /\ fsOps = <<>>
  /\ procs = NoProcs

Validate ==
  LET probe == downloadSkillMd(call.owner, call.repo, call.raw, call.net)
  IN /\ call.op = "init"
     /\ result' = probe.found
     /\ requests' = probe.requests
     /\ call' = [call EXCEPT !.op = "validate"]
     /\ UNCHANGED <<fs, now, fsOps, procs>>

NextContent == Validate

SpecContent == InitContent /\ [][NextContent]_vars

(***************************************************************************)
(* Security Gate                                                           *)
(***************************************************************************)
SCORE_THRESHOLD == 25

\* the fields of VibeResource the install tool reads
Resource(name, owner, repo, scan, score, flags) ==
  [name |-> name, github_owner |-> owner, github_repo |-> repo,
   cisco_scan_result |-> scan, security_score |-> score, security_flags |-> flags]

ScanResult(isSafe, severity, count) ==
  [is_safe |-> isSafe, max_severity |-> severity, findings_count |-> count]

\* the flags a block explanation prints: security_flags?.length ? flags : none
ShownFlags(skill) ==
  IF IsSome(skill.security_flags) /\ Len(Get(skill.security_flags)) > 0
  THEN Get(skill.security_flags)
  ELSE <<>>

\* a block explanation: which signal blocked, and the values it prints
Blocked(signal, skill, severity, count, score) ==
  [signal |-> signal, name |-> skill.name, severity |-> severity, findings |-> count,
   score |-> score, flags |-> ShownFlags(skill)]

checkSecurity_StrictThreshold(skill) ==
  IF IsSome(skill.cisco_scan_result) /\ ~Get(skill.cisco_scan_result).is_safe
  THEN Some(Blocked("scan", skill, Get(skill.cisco_scan_result).max_severity,
                    Get(skill.cisco_scan_result).findings_count, None))
  ELSE IF IsSome(skill.security_score) /\ Get(skill.security_score) > SCORE_THRESHOLD
       THEN Some(Blocked("score", skill, "", 0, skill.security_score))
       ELSE None

checkSecurity_ScanDecides(skill) ==
  IF IsSome(skill.cisco_scan_result)
  THEN (IF ~Get(skill.cisco_scan_result).is_safe
        THEN Some(Blocked("scan", skill, Get(skill.cisco_scan_result).max_severity,
                          Get(skill.cisco_scan_result).findings_count, None))
        ELSE None)
  ELSE IF IsSome(skill.security_score) /\ Get(skill.security_score) >= SCORE_THRESHOLD
       THEN Some(Blocked("score", skill, "", 0, skill.security_score))
       ELSE None

\* checkSecurity(skill): null (None) allows, a block explanation vetoes
checkSecurity(skill) ==
  IF IsSome(skill.cisco_scan_result) /\ ~Get(skill.cisco_scan_result).is_safe
  THEN Some(Blocked("scan", skill, Get(skill.cisco_scan_result).max_severity,
                    Get(skill.cisco_scan_result).findings_count, None))
  ELSE IF IsSome(skill.security_score) /\ Get(skill.security_score) >= SCORE_THRESHOLD
       THEN Some(Blocked("score", skill, "", 0, skill.security_score))
       ELSE None

Scans == {None, Some(ScanResult(TRUE, "NONE", 0)), Some(ScanResult(FALSE, "HIGH", 1))}

Scores == {None} \cup {Some(n) : n \in 0..MaxScore}

Flags == {None, Some(<<"f">>)}

Resources ==
  {Resource(<<"a">>, Some("o"), Some("r"), scan, score, flags) :
     scan \in Scans, score \in Scores, flags \in Flags}

SkillCall(op, force, net, pre, skillOpt) ==
  [Call(op, "", "", IF IsSome(skillOpt) THEN Get(skillOpt).name ELSE <<>>,
        force, net, pre, FALSE) EXCEPT !.skill = skillOpt]

CheckSecurity ==
  \E skill \in Resources :
    /\ result' = checkSecurity(skill)
    /\ call' = SkillCall("checkSecurity", FALSE, <<>>, None, Some(skill))
    /\ UNCHANGED <<fs, now, requests, fsOps, procs>>

NextGate == CheckSecurity

SpecGate == Init /\ [][NextGate]_vars

(***************************************************************************)
(* Install tool (vibeclaw_install)                                         *)
(***************************************************************************)
\* the text the tool returns: which message, with the block explanation or
\* the installer's result it is built from
ToolText(kind, block, install) ==
  [content |-> [kind |-> kind, block |-> block, install |-> install]]

\* what client.search does: throw, or answer with a success flag and data
SearchThrew == [threw |-> TRUE, success |-> FALSE, data |-> <<>>]

SearchAnswer(success, data) == [threw |-> FALSE, success |-> success, data |-> data]

\* the security gate as the tool consults it
SecurityGate_Skipped(skill) == None

SecurityGate(skill) == checkSecurity(skill)

\* createInstallTool(client).execute({ query, force })
executeInstall(fsys, t, search, force, net) ==
  IF search.threw THEN Outcome(fsys, ToolText("error", None, None), <<>>, <<>>)
  ELSE IF ~search.success \/ Len(search.data) = 0
  THEN Outcome(fsys, ToolText("not-in-catalog", None, None), <<>>, <<>>)
  ELSE
    LET skill == search.data[1]
    IN IF ~IsSome(skill.github_owner) \/ ~IsSome(skill.github_repo)
       THEN Outcome(fsys, ToolText("no-repository", None, None), <<>>, <<>>)
       ELSE IF IsSome(SecurityGate(skill))
       THEN Outcome(fsys, ToolText("blocked", SecurityGate(skill), None), <<>>, <<>>)
       ELSE
         LET out == installSkillFromGitHub(fsys, t, Get(skill.github_owner),
                                           Get(skill.github_repo), skill.name, force, net)
             kind == IF ~out.result.success THEN "install-failed"
                     ELSE IF out.result.alreadyInstalled THEN "already-installed"
                     ELSE "installed"
         IN Outcome(out.fs, ToolText(kind, None, Some(out.result)), out.requests, out.fsOps)

\* resources the catalog may answer with: with and without a repository, each
\* scan verdict, scores around the threshold
ToolResources ==
  {Resource(<<"a">>, owner, repo, scan, score, None) :
     owner \in {None, Some("o")}, repo \in {None, Some("r")}, scan \in Scans,
     score \in {None, Some(0), Some(SCORE_THRESHOLD - 1), Some(SCORE_THRESHOLD)}}

Searches ==
  {SearchThrew, SearchAnswer(FALSE, <<>>), SearchAnswer(TRUE, <<>>)}
    \cup {SearchAnswer(TRUE, <<r>>) : r \in ToolResources}

ToolNets == {NetNone, NetFirst(SkillA)}

InstallTool ==
  \E search \in Searches, force \in BOOLEAN, net \in ToolNets, t \in Times :
    LET skillOpt == IF ~search.threw /\ search.success /\ Len(search.data) > 0
                    THEN Some(search.data[1]) ELSE None
        pre == IF IsSome(skillOpt) THEN Entry(fs, TargetDir(Get(skillOpt).name)) ELSE None
    IN /\ Apply(executeInstall(fs, t, search, force, net))
       /\ now' = t
       /\ call' = SkillCall("tool", force, net, pre, skillOpt)

NextTool == InstallTool

SpecTool == Init /\ [][NextTool]_vars

(***************************************************************************)
(* Properties of the lifecycle                                             *)
(***************************************************************************)
\* a candidate whose answer the prober accepts
Accepted(response) == ~response.threw /\ response.ok /\ IsSkillMd(response.text)

\* the first candidate of net that is HTTP-successful and valid, 0 if none is
FirstAccepted(net) ==
  LET hits == {i \in DOMAIN net : Accepted(net[i])}
  IN IF hits = {} THEN 0 ELSE CHOOSE i \in hits : \A j \in hits : i <= j

IsWrite(op) == op.op \in {"mkdir", "writeFile", "rm"}

\* C3: an install without force that comes right after a fresh, successful
\* install of the same identifier succeeds with alreadyInstalled = true, issues
\* no request, writes nothing and leaves the filesystem as it was
C3_SecondInstallIsNoOp ==
  [][(/\ FreshlyInstalled(call'.raw)
      /\ call'.op = "install"
      /\ ~call'.force)
     => (/\ result'.success
         /\ result'.alreadyInstalled
         /\ requests' = <<>>
         /\ \A i \in DOMAIN fsOps' : ~IsWrite(fsOps'[i])
         /\ fs' = fs)]_vars

C3_Witness ==
  /\ call.op = "install"
  /\ ~call.force
  /\ call.follows
  /\ result.alreadyInstalled
  /\ requests = <<>>

\* C4: an install without force of a valid identifier reports alreadyInstalled
\* exactly when the target directory held an Install Record before the call
C4_AlreadyInstalledIffRecord ==
  (/\ call.op = "install"
   /\ ~call.force
   /\ IsSome(TargetDir(call.raw)))
  => (result.alreadyInstalled <=> (IsSome(call.pre) /\ IsSome(Get(call.pre).meta)))

\* C5: an install with force of a skill that was installed before, whose probe
\* finds a valid candidate, succeeds without alreadyInstalled, leaves the
\* downloaded text as the content file and a record with the time of this
\* install and the URL of the accepted candidate
C5_ForceReinstalls ==
  (/\ call.op = "install"
   /\ call.force
   /\ IsSome(call.pre)
   /\ IsSome(Get(call.pre).skillmd)
   /\ IsSome(Get(call.pre).meta)
   /\ FirstAccepted(call.net) # 0)
  => LET k == FirstAccepted(call.net)
         url == getSkillMdUrls(call.owner, call.repo, call.raw)[k]
         dir == Get(TargetDir(call.raw))
     IN /\ result.success
        /\ ~result.alreadyInstalled
        /\ result.sourceUrl = Some(url)
        /\ dir \in DOMAIN fs
        /\ fs[dir].skillmd = Some(call.net[k].text)
        /\ IsSome(fs[dir].meta)
        /\ Get(fs[dir].meta).installedAt = now
        /\ Get(fs[dir].meta).sourceUrl = url
        /\ Get(fs[dir].meta).source = [owner |-> call.owner, repo |-> call.repo]

\* a forced reinstall that changed the content, the timestamp and the URL
C5_Witness ==
  /\ call.op = "install"
  /\ call.force
  /\ IsSome(call.pre)
  /\ IsSome(Get(call.pre).meta)
  /\ result.success
  /\ Get(call.pre).skillmd # fs[Get(TargetDir(call.raw))].skillmd
  /\ Get(Get(call.pre).meta).installedAt < now
  /\ Get(Get(call.pre).meta).sourceUrl # Get(result.sourceUrl)

\* C10: an install whose prober tried all six candidates and accepted none
\* fails with an error and leaves the filesystem exactly as it was
C10_FailedProbeWritesNothing ==
  [][(/\ call'.op = "install"
      /\ Len(requests') = 6
      /\ FirstAccepted(call'.net) = 0)
     => (/\ ~result'.success
         /\ IsSome(result'.error)
         /\ \A i \in DOMAIN fsOps' : ~IsWrite(fsOps'[i])
         /\ fs' = fs)]_vars

\* a forced install of an installed skill whose probe found nothing
C10_Witness ==
  /\ call.op = "install"
  /\ call.force
  /\ IsSome(call.pre)
  /\ IsSome(Get(call.pre).meta)
  /\ Len(requests) = 6
  /\ result.error = Some("not-found")
  /\ Entry(fs, TargetDir(call.raw)) = call.pre

(***************************************************************************)
(* Properties of the prober                                                *)
(***************************************************************************)
\* the fixed candidate order of the Source Prober
CandidateOrder(owner, repo, name) ==
  << [owner |-> owner, repo |-> repo, branch |-> "main", layout |-> "skills", name |-> name],
     [owner |-> owner, repo |-> repo, branch |-> "master", layout |-> "skills", name |-> name],
     [owner |-> owner, repo |-> repo, branch |-> "main", layout |-> "root", name |-> <<>>],
     [owner |-> owner, repo |-> repo, branch |-> "master", layout |-> "root", name |-> <<>>],
     [owner |-> owner, repo |-> repo, branch |-> "main", layout |-> "src/skills", name |-> name],
     [owner |-> owner, repo |-> repo, branch |-> "master", layout |-> "src/skills", name |-> name] >>

\* C9: the requests of a download are the candidates in the fixed order up to
\* and including the first HTTP-successful, valid one, whose text and URL are
\* returned; no URL is requested twice; the download returns nothing only
\* after all six candidates
C9_ProbeStopsAtFirstValid ==
  call.op = "download"
  => LET k == FirstAccepted(call.net)
         order == CandidateOrder(call.owner, call.repo, call.raw)
     IN /\ \A i, j \in DOMAIN requests : i # j => requests[i] # requests[j]
        /\ k # 0 => /\ requests = SubSeq(order, 1, k)
                    /\ result = Some([content |-> call.net[k].text, url |-> order[k]])
        /\ k = 0 => /\ requests = order
                    /\ result = None

\* only the fourth candidate and later ones are valid: four requests, the
\* fourth's text and URL returned
C9_Witness ==
  /\ call.op = "download"
  /\ FirstAccepted(call.net) = 4
  /\ Accepted(call.net[5])
  /\ Accepted(call.net[6])
  /\ call.net[1].threw
  /\ ~call.net[2].ok /\ ~call.net[2].threw
  /\ call.net[3].ok /\ ~IsSkillMd(call.net[3].text)
  /\ Len(requests) = 4
  /\ Get(result).url.branch = "master"
  /\ Get(result).url.layout = "root"
  /\ Get(result).content = call.net[4].text

(***************************************************************************)
(* Properties of the security gate and of the install tool                 *)
(***************************************************************************)
\* C6: checkSecurity blocks exactly when a deep scan exists and says unsafe,
\* or a risk score exists and is at least 25
C6_GatePolicy ==
  call.op = "checkSecurity"
  => LET skill == Get(call.skill)
         scan == skill.cisco_scan_result
         score == skill.security_score
     IN IsSome(result) <=> \/ (IsSome(scan) /\ ~Get(scan).is_safe)
                           \/ (IsSome(score) /\ Get(score) >= 25)

\* score exactly 25 and no deep scan: blocked
C6_Witness ==
  /\ call.op = "checkSecurity"
  /\ Get(call.skill).cisco_scan_result = None
  /\ Get(call.skill).security_score = Some(25)
  /\ IsSome(result)
  /\ Get(result).signal = "score"

\* C7 as stated: with a deep-scan result the gate blocks exactly when the scan
\* says unsafe, whatever the score
C7_GateEqualsDeepScan ==
  (call.op = "checkSecurity" /\ IsSome(Get(call.skill).cisco_scan_result))
  => (IsSome(result) <=> ~Get(Get(call.skill).cisco_scan_result).is_safe)

\* C7 amended: an unsafe deep scan blocks whatever the score; with a safe deep
\* scan the gate blocks exactly when a risk score exists and is at least 25
C7_UnsafeScanNeverOverridden ==
  (call.op = "checkSecurity" /\ IsSome(Get(call.skill).cisco_scan_result))
  => LET scan == Get(Get(call.skill).cisco_scan_result)
         score == Get(call.skill).security_score
     IN /\ ~scan.is_safe => (IsSome(result) /\ Get(result).signal = "scan")
        /\ scan.is_safe => (IsSome(result) <=> (IsSome(score) /\ Get(score) >= 25))

\* a safe deep scan with score 25: blocked by the score
C7_Witness ==
  /\ call.op = "checkSecurity"
  /\ IsSome(Get(call.skill).cisco_scan_result)
  /\ Get(Get(call.skill).cisco_scan_result).is_safe
  /\ Get(call.skill).security_score = Some(25)
  /\ IsSome(result)

\* C8: when the resource the catalog answered with is vetoed by the gate, the
\* tool invokes no installer (no request, no filesystem call, the root as it
\* was), and for a resource with a repository it returns the block explanation
C8_VetoPrecedesInstaller ==
  [][(/\ call'.op = "tool"
      /\ IsSome(call'.skill)
      /\ IsSome(checkSecurity(Get(call'.skill))))
     => (/\ requests' = <<>>
         /\ fsOps' = <<>>
         /\ fs' = fs
         /\ (IsSome(Get(call'.skill).github_owner) /\ IsSome(Get(call'.skill).github_repo))
              => result'.content = [kind |-> "blocked",
                                    block |-> checkSecurity(Get(call'.skill)),
                                    install |-> None])]_vars

\* a forced install of an installed skill whose resource has an unsafe deep
\* scan and score 0: blocked
C8_Witness ==
  /\ call.op = "tool"
  /\ call.force
  /\ IsSome(call.pre)
  /\ IsSome(Get(call.pre).meta)
  /\ IsSome(call.skill)
  /\ IsSome(Get(call.skill).cisco_scan_result)
  /\ ~Get(Get(call.skill).cisco_scan_result).is_safe
  /\ Get(call.skill).security_score = Some(0)
  /\ result.content.kind = "blocked"
  /\ Entry(fs, TargetDir(call.raw)) = call.pre

(***************************************************************************)
(* Properties of the registry                                              *)
(***************************************************************************)
\* C11: list() returns exactly the names of the directories under the root
\* that contain an Install Record
C11_ListIsTracked ==
  call.op = "list"
  => /\ \A d \in DOMAIN fs :
          IsSome(fs[d].meta) => (IsStrictlyInside(d, SKILLS_DIR) /\ d[Len(d)] \in result)
     /\ \A name \in result :
          /\ Append(SKILLS_DIR, name) \in DOMAIN fs
          /\ IsSome(fs[Append(SKILLS_DIR, name)].meta)

\* a listing of a root with two tracked skills and a third directory that
\* has content but no record
C11_Witness ==
  /\ call.op = "list"
  /\ Cardinality(result) = 2
  /\ \E d \in DOMAIN fs :
       /\ IsSome(fs[d].skillmd)
       /\ ~IsSome(fs[d].meta)
       /\ d[Len(d)] \notin result

\* C12: uninstall returns true exactly when the directory of the sanitized
\* identifier holds an Install Record, and then that directory is gone with
\* all it held; otherwise it returns false and the filesystem is as it was
C12_UninstallIffRecord ==
  [][call'.op = "uninstall"
     => LET target == TargetDir(call'.raw)
            tracked == IsSome(target) /\ Get(target) \in DOMAIN fs
                         /\ IsSome(fs[Get(target)].meta)
        IN /\ result' = tracked
           /\ tracked => /\ Get(target) \notin DOMAIN fs'
                         /\ \A d \in DOMAIN fs' : ~IsStrictlyInside(d, Get(target))
           /\ ~tracked => fs' = fs]_vars

\* an uninstall of a directory that has content but no record: false, and the
\* directory is still there
C12_Witness ==
  /\ call.op = "uninstall"
  /\ result = FALSE
  /\ IsSome(call.pre)
  /\ IsSome(Get(call.pre).skillmd)
  /\ ~IsSome(Get(call.pre).meta)
  /\ Entry(fs, TargetDir(call.raw)) = call.pre

\* C14: an install or uninstall leaves every directory other than its target
\* as it was, and creates none; with an invalid identifier it changes nothing
C14_OnlyTargetChanges ==
  [][call'.op \in {"install", "uninstall"}
     => LET target == TargetDir(call'.raw)
        IN /\ ~IsSome(target) => fs' = fs
           /\ \A d \in (DOMAIN fs \cup DOMAIN fs') :
                (IsSome(target) /\ d = Get(target))
                  \/ (d \in DOMAIN fs /\ d \in DOMAIN fs' /\ fs'[d] = fs[d])]_vars

\* an uninstall that removed one tracked skill while another stays installed
C14_Witness ==
  /\ call.op = "uninstall"
  /\ result = TRUE
  /\ \E d \in DOMAIN fs : IsSome(fs[d].meta) /\ IsSome(fs[d].skillmd)

(***************************************************************************)
(* Properties of the write order                                           *)
(***************************************************************************)
\* C13: in every state reached by installs and force-installs that take one
\* await at a time, overlap, and may be cut short by a host crash before any
\* await, and by uninstalls, a directory that holds an Install Record also
\* holds the skill content file.
C13_RecordImpliesContent ==
  \A d \in DOMAIN fs : IsSome(fs[d].meta) => IsSome(fs[d].skillmd)

\* a fresh install went down between its two writes: content, no record
C13_Witness ==
  \E p \in Procs :
    LET pr == procs.run[p]
    IN /\ pr.pc = "crashed"
       /\ pr.at = "writeMeta"
       /\ HasSkillMd(fs, Get(TargetDir(pr.raw)))
       /\ ~HasMeta(fs, Get(TargetDir(pr.raw)))
       /\ \A q \in Procs \ {p} : procs.run[q].pc = "idle"

\* both callers' installs of the same identifier downloaded, wrote and returned
BothWrote ==
  \A p \in Procs :
    /\ procs.run[p].pc = "done"
    /\ procs.run[p].result # None
    /\ Get(procs.run[p].result).success
    /\ ~Get(procs.run[p].result).alreadyInstalled

\* the entry of the directory the callers install into
StepEntry == fs[Get(TargetDir(procs.run[1].raw))]

\* C15 as stated: when two installs of the same identifier overlap and both
\* succeed, the content file and the Install Record in the directory both come
\* from the same one of the two installs.
C15_SameInstall ==
  BothWrote =>
    \E p \in Procs :
      /\ StepEntry.skillmd = Some(Get(procs.run[p].found).content)
      /\ StepEntry.meta = Some(MetaOf(procs.run[p], now))

\* C15, amended: when both succeed, each of the two files is the one written
\* last: the content file is the text of the install whose content write came
\* last, the Install Record that of the install whose record write came last;
\* these need not be the same install.
C15_LastWriterPerFile ==
  BothWrote =>
    /\ IsSome(procs.mdBy)
    /\ IsSome(procs.metaBy)
    /\ StepEntry.skillmd = Some(Get(procs.run[Get(procs.mdBy)].found).content)
    /\ StepEntry.meta = Some(MetaOf(procs.run[Get(procs.metaBy)], now))

\* both succeeded and the directory pairs one install's content with the
\* other's record
C15_Witness ==
  /\ BothWrote
  /\ procs.mdBy # procs.metaBy
  /\ StepEntry.skillmd # Some(Get(procs.run[Get(procs.metaBy)].found).content)
  /\ Get(StepEntry.meta).sourceUrl # MetaOf(procs.run[Get(procs.mdBy)], now).sourceUrl

(***************************************************************************)
(* Properties of the content test                                          *)
(***************************************************************************)
\* C16 as stated: the prober accepts an HTTP-successful response exactly when
\* its content starts with ---, has a second --- after position 3 and has
\* name: between the two delimiters; any other content is rejected and the
\* next candidate is tried.
C16_AcceptsIffNameInFrontmatter ==
  call.op = "validate"
  => LET text == call.net[1].text
         order == CandidateOrder(call.owner, call.repo, call.raw)
         close == IndexOf(text, FRONTMATTER, 3)
     IN IF /\ StartsWith(text, FRONTMATTER)
           /\ close > 3
           /\ \E i \in 3..(close - Len(NAME_FIELD)) :
                SubSeq(text, i + 1, i + Len(NAME_FIELD)) = NAME_FIELD
        THEN /\ result = Some([content |-> text, url |-> order[1]])
             /\ requests = <<order[1]>>
        ELSE /\ result = Some([content |-> call.net[2].text, url |-> order[2]])
             /\ requests = <<order[1], order[2]>>

(***************************************************************************)
(* Properties of identifiers and records                                   *)
(***************************************************************************)
\* C17 as stated: two distinct raw identifiers that the sanitizer accepts
\* denote distinct skills: an install (forced or not) or uninstall of one
\* never reports a skill recorded under the other as already installed, and
\* never overwrites or removes the other's content file and Install Record.
C17_DistinctIdsDistinctSkills ==
  [][(call'.op \in {"install", "uninstall"} /\ IsSome(TargetDir(call'.raw)))
     => \A d \in DOMAIN fs :
          (IsSome(fs[d].meta) /\ Get(fs[d].meta).skillName # call'.raw)
            => /\ d \in DOMAIN fs'
               /\ fs'[d] = fs[d]
               /\ ~(/\ call'.op = "install"
                    /\ result'.alreadyInstalled
                    /\ result'.installPath = Some(d))]_vars

\* C18: in a run of installs, force-installs and uninstalls that each run to
\* completion, every directory that holds an Install Record after a step
\* either is as it was before the step, or is the target of an install whose
\* probe accepted candidate k: its content file is the text of candidate k and
\* its record names the owner and repository of that install and the URL of
\* candidate k. No record exists at the start, so every record describes the
\* content next to it.
C18_RecordDescribesContent ==
  [][\A d \in DOMAIN fs' :
       IsSome(fs'[d].meta)
         => \/ d \in DOMAIN fs /\ fs'[d] = fs[d]
            \/ LET k == FirstAccepted(call'.net)
                   order == CandidateOrder(call'.owner, call'.repo, call'.raw)
               IN /\ call'.op = "install"
                  /\ TargetDir(call'.raw) = Some(d)
                  /\ k # 0
                  /\ fs'[d].skillmd = Some(call'.net[k].text)
                  /\ Get(fs'[d].meta).sourceUrl = order[k]
                  /\ Get(fs'[d].meta).source = [owner |-> call'.owner, repo |-> call'.repo]]_vars

\* a forced install replaced a tracked skill's content and record with those
\* of the fourth candidate while another tracked skill stayed as it was
C18_Witness ==
  /\ call.op = "install"
  /\ call.force
  /\ IsSome(call.pre)
  /\ IsSome(Get(call.pre).meta)
  /\ Get(Get(call.pre).meta).sourceUrl.branch = "main"
  /\ FirstAccepted(call.net) = 4
  /\ Get(fs[Get(TargetDir(call.raw))].meta).sourceUrl.branch = "master"
  /\ fs[Get(TargetDir(call.raw))].skillmd = Some(call.net[4].text)
  /\ \E d \in DOMAIN fs : d # Get(TargetDir(call.raw)) /\ IsSome(fs[d].meta)

====
